---- MODULE Spec2Model ----
(***************************************************************************)
(* Model of tui-tracing: the per-span Timing state machine                 *)
(* (src/src/timing_layer.rs), the TraceStore record store                  *)
(* (src/src/storage.rs), and the TracingLayer adapter                      *)
(* (src/src/tracing_layer.rs) wired as in src/examples/demo.rs.            *)
(*                                                                         *)
(* The specifications share the variables:                                 *)
(*   SpecTiming   one Timing value driven by enter/exit/close under a      *)
(*                mock quanta clock (the shape of the unit tests);         *)
(*   Spec         one TraceStore driven through its public operations      *)
(*                under the chrono wall clock;                             *)
(*   SpecAdapter  threads running the layers' handlers, remove_expired     *)
(*                and spans() against one store, step by step;             *)
(*   SpecAdapterFair  the same under fair scheduling of the threads.       *)
(***************************************************************************)
EXTENDS Integers, Sequences, FiniteSets, TLC

VARIABLES
    timing,     \* the Timing under test (SpecTiming)
    clock,      \* quanta::Instant::now(), a monotonic reading
    t0,         \* history: the clock reading Timing::new() took
    hist,       \* history: the calls made on `timing`, each with its reading
    spans,      \* TraceStore.spans: the IndexMap, as its ordered entries
    wall,       \* chrono::Local::now()
    lastOp,     \* history: the most recent TraceStore call
    calls,      \* history: the number of TraceStore calls made
    pc,         \* per thread: the call it is running and where it stands in it
    ext,        \* per span id: the Timing in the span's extensions, if any
    life,       \* per span id: where the host has the span in its lifecycle
    extLock,    \* per span id: the RwLock around the span's extensions
    storeLock,  \* the RwLock around TraceStore.spans
    snap,       \* the Vec the last spans() call returned, if any did
    started,    \* history: the number of calls the threads have started
    panicked,   \* close_span has unwrapped a None
    text        \* what rendering the snapshot gave, once it was rendered

vars == <<timing, clock, t0, hist, spans, wall, lastOp, calls,
          pc, ext, life, extLock, storeLock, snap, started, panicked, text>>

timingVars == <<timing, clock, t0, hist>>
storeVars == <<spans, wall, lastOp, calls>>
adapterVars == <<pc, ext, life, extLock, storeLock, snap, started, panicked>>
renderVars == <<text>>

-----------------------------------------------------------------------------
(* Bounds of the model *)

MaxClock == 4       \* the mock clock stops advancing here
MaxCalls == 4       \* enter/exit/close calls made on the Timing under test
MaxTime == 2        \* the wall clock stops advancing here
MaxId == 1          \* span ids are 0..MaxId
MaxOps == 4         \* calls made on the store
MaxEvents == 2      \* events held by the whole store
MaxThreshold == 1   \* largest threshold handed to remove_expired

-----------------------------------------------------------------------------
(* Timing: src/src/timing_layer.rs *)

State == {"Closed", "Idle", "Busy"}

\* quanta's Instant::duration_since saturates to zero
duration_since(now, earlier) == IF now >= earlier THEN now - earlier ELSE 0

new(now) ==
    [state |-> "Idle", idle |-> 0, busy |-> 0, last |-> now,
     enter_count |-> 0, exit_count |-> 0]

\* a record() that forgets the interval spent busy
record_drop_busy(self, now) ==
    CASE self.state = "Idle" ->
            [self EXCEPT !.idle = @ + duration_since(now, self.last), !.last = now]
      [] self.state = "Busy" -> [self EXCEPT !.last = now]
      [] self.state = "Closed" -> [self EXCEPT !.last = now]

\* a record() that assigns the interval instead of adding it
record_assign(self, now) ==
    CASE self.state = "Idle" ->
            [self EXCEPT !.idle = duration_since(now, self.last), !.last = now]
      [] self.state = "Busy" ->
            [self EXCEPT !.busy = duration_since(now, self.last), !.last = now]
      [] self.state = "Closed" -> [self EXCEPT !.last = now]

\* a record() that counts the time spent Closed as idle time
record_closed_idle(self, now) ==
    CASE self.state = "Busy" ->
            [self EXCEPT !.busy = @ + duration_since(now, self.last), !.last = now]
      [] OTHER ->
            [self EXCEPT !.idle = @ + duration_since(now, self.last), !.last = now]

record(self, now) ==
    CASE self.state = "Idle" ->
            [self EXCEPT !.idle = @ + duration_since(now, self.last), !.last = now]
      [] self.state = "Busy" ->
            [self EXCEPT !.busy = @ + duration_since(now, self.last), !.last = now]
      [] self.state = "Closed" -> [self EXCEPT !.last = now]

\* an enter() that skips the flush of the elapsed interval
enter_no_record(self, now) ==
    [self EXCEPT !.enter_count = @ + 1, !.state = "Busy", !.last = now]

enter(self, now) ==
    [record(self, now) EXCEPT !.enter_count = @ + 1, !.state = "Busy"]

exit(self, now) ==
    [record(self, now) EXCEPT !.exit_count = @ + 1, !.state = "Idle"]

\* a close() that flushes the time but leaves the state as it is
close_keep_state(self, now) == record(self, now)

close(self, now) ==
    [record(self, now) EXCEPT !.state = "Closed"]

total_duration(self) == self.idle + self.busy

-----------------------------------------------------------------------------
(* The Timing under test, driven as the unit tests drive it *)

Call(op) == [op |-> op, at |-> clock]

\* mock.increment
Advance ==
    /\ clock < MaxClock
    /\ clock' = clock + 1
    /\ UNCHANGED <<timing, t0, hist, storeVars, adapterVars, renderVars>>

Enter ==
    /\ Len(hist) < MaxCalls
    /\ timing' = enter(timing, clock)
    /\ hist' = Append(hist, Call("enter"))
    /\ UNCHANGED <<clock, t0, storeVars, adapterVars, renderVars>>

Exit ==
    /\ Len(hist) < MaxCalls
    /\ timing' = exit(timing, clock)
    /\ hist' = Append(hist, Call("exit"))
    /\ UNCHANGED <<clock, t0, storeVars, adapterVars, renderVars>>

Close ==
    /\ Len(hist) < MaxCalls
    /\ timing' = close(timing, clock)
    /\ hist' = Append(hist, Call("close"))
    /\ UNCHANGED <<clock, t0, storeVars, adapterVars, renderVars>>

-----------------------------------------------------------------------------
(* TraceStore: src/src/storage.rs *)

\* Option<T> as a set of at most one element
None == {}
Some(x) == {x}

\* chrono's signed_duration_since: a signed difference
signed_duration_since(now, earlier) == now - earlier

\* IndexMap<u64, SpanRecord>: the entries in insertion order
Keys(map) == {map[i].key : i \in DOMAIN map}
IndexOf(map, key) == CHOOSE i \in DOMAIN map : map[i].key = key
Get(map, key) == map[IndexOf(map, key)].value

\* IndexMap::insert: an existing key keeps its place and gets the new value
IndexMap_insert(map, key, value) ==
    IF key \in Keys(map)
    THEN [map EXCEPT ![IndexOf(map, key)].value = value]
    ELSE Append(map, [key |-> key, value |-> value])

\* IndexMap::retain: the entries kept, in their order
RECURSIVE IndexMap_retain(_, _, _)
IndexMap_retain(map, keep, i) ==
    IF i > Len(map) THEN <<>>
    ELSE (IF keep[i] THEN <<map[i]>> ELSE <<>>) \o IndexMap_retain(map, keep, i + 1)

RootRecord(now, tnow) ==
    [start_time |-> now, close_time |-> None, timing |-> new(tnow),
     level |-> "INFO", name |-> "root", target |-> "root", events |-> <<>>]

TraceStore_default(now, tnow) == <<[key |-> 0, value |-> RootRecord(now, tnow)]>>

\* impl From<SpanRef> for SpanRecord
SpanRecord_from(t, level, name, target, now) ==
    [start_time |-> now, close_time |-> None, timing |-> t,
     level |-> level, name |-> name, target |-> target, events |-> <<>>]

\* impl From<&tracing::Event> for EventRecord
EventRecord_from(level, fields, now) ==
    [time |-> now, level |-> level, fields |-> fields]

TraceStore_spans(map) == [i \in DOMAIN map |-> map[i].value]

\* an insert_span that keeps the record it finds (entry().or_insert)
insert_span_keep(map, id, span) ==
    IF id \in Keys(map) THEN map ELSE IndexMap_insert(map, id, span)

insert_span(map, id, span) == IndexMap_insert(map, id, span)

\* an insert_event that creates the record it does not find
insert_event_upsert(map, span_id, event) ==
    IF span_id \in Keys(map)
    THEN [map EXCEPT ![IndexOf(map, span_id)].value.events = Append(@, event)]
    ELSE Append(map, [key |-> span_id,
                      value |-> [SpanRecord_from(new(0), "INFO", "", "", event.time)
                                    EXCEPT !.events = <<event>>]])

\* an insert_event that puts the event in front
insert_event_front(map, span_id, event) ==
    IF span_id \in Keys(map)
    THEN [map EXCEPT ![IndexOf(map, span_id)].value.events = <<event>> \o @]
    ELSE map

insert_event(map, span_id, event) ==
    IF span_id \in Keys(map)
    THEN [map EXCEPT ![IndexOf(map, span_id)].value.events = Append(@, event)]
    ELSE map

\* a close that closes the stored timing as well
SpanRecord_close_timing(span, now) ==
    [span EXCEPT !.close_time = Some(now), !.timing.state = "Closed"]

SpanRecord_close(span, now) == [span EXCEPT !.close_time = Some(now)]

\* defined for a present id; for an absent one the unwrap() panics
close_span(map, id, now) ==
    [map EXCEPT ![IndexOf(map, id)].value = SpanRecord_close(@, now)]

\* an expiry test that is not strict
Expired_at_threshold(span, threshold, now) ==
    \E close_time \in span.close_time :
        signed_duration_since(now, close_time) >= threshold

\* an expiry test that takes an open record for an expired one
Expired_or_open(span, threshold, now) ==
    \/ span.close_time = None
    \/ \E close_time \in span.close_time :
            signed_duration_since(now, close_time) > threshold

\* an expiry test that spares every record holding events
Expired_no_events(span, threshold, now) ==
    /\ span.events = <<>>
    /\ \E close_time \in span.close_time :
            signed_duration_since(now, close_time) > threshold

\* the closure of retain, negated: `now` is the Local::now() it reads;
\* Option::is_some_and is an existential over the option's content
Expired(span, threshold, now) ==
    \E close_time \in span.close_time :
        signed_duration_since(now, close_time) > threshold

\* nowAt[i] is the Local::now() the closure reads for the i-th entry
remove_expired(map, threshold, nowAt) ==
    IndexMap_retain(map,
        [i \in DOMAIN map |-> ~Expired(map[i].value, threshold, nowAt[i])], 1)

\* an update_timing that reopens the record it updates
update_timing_reopen(map, into_u64, t) ==
    IF into_u64 \in Keys(map)
    THEN [map EXCEPT ![IndexOf(map, into_u64)].value.timing = t,
                     ![IndexOf(map, into_u64)].value.close_time = None]
    ELSE map

\* an update_timing that replaces the record by a fresh one holding t
update_timing_fresh(map, into_u64, t) ==
    IF into_u64 \in Keys(map)
    THEN [map EXCEPT ![IndexOf(map, into_u64)].value =
                SpanRecord_from(t, @.level, @.name, @.target, @.start_time)]
    ELSE map

update_timing(map, into_u64, t) ==
    IF into_u64 \in Keys(map)
    THEN [map EXCEPT ![IndexOf(map, into_u64)].value.timing = t]
    ELSE map

-----------------------------------------------------------------------------
(* The inputs the store is driven with *)

Ids == 0..MaxId
Thresholds == (0 - 1)..MaxThreshold

\* Timing values as the timing layer produces them
TimingSamples == {enter(new(0), 1), close(enter(new(0), 1), 2)}

FieldMaps ==
    { <<[name |-> "message", value |-> "x"]>>,
      <<[name |-> "answer", value |-> "42"]>> }

RECURSIVE SumLen(_, _)
SumLen(map, i) ==
    IF i > Len(map) THEN 0 ELSE Len(map[i].value.events) + SumLen(map, i + 1)

EventCount(map) == SumLen(map, 1)

NoOp ==
    [op |-> "none", id |-> 0, panic |-> FALSE, threshold |-> 0,
     event |-> None, nowAt |-> <<>>, removed |-> {}, afterSweep |-> FALSE,
     span |-> None, timing |-> None]

-----------------------------------------------------------------------------
(* The store's operations, one action per call *)

Called ==
    /\ calls < MaxOps
    /\ calls' = calls + 1

Tick ==
    /\ wall < MaxTime
    /\ wall' = wall + 1
    /\ lastOp' = [NoOp EXCEPT !.op = "tick", !.removed = lastOp.removed]
    /\ UNCHANGED <<spans, calls, timingVars, adapterVars, renderVars>>

InsertSpan ==
    /\ Called
    /\ \E id \in Ids :
        /\ spans' = insert_span(spans, id,
                        SpanRecord_from(new(0), "DEBUG", "work", "demo", wall))
        /\ lastOp' = [NoOp EXCEPT !.op = "insert_span", !.id = id,
                !.span = Some(SpanRecord_from(new(0), "DEBUG", "work", "demo", wall))]
        /\ UNCHANGED <<wall, timingVars, adapterVars, renderVars>>

InsertEvent ==
    /\ Called
    /\ \E id \in Ids, f \in FieldMaps :
        /\ EventCount(spans) < MaxEvents
        /\ spans' = insert_event(spans, id, EventRecord_from("INFO", f, wall))
        /\ lastOp' = [NoOp EXCEPT !.op = "insert_event", !.id = id,
                                  !.event = Some(EventRecord_from("INFO", f, wall)),
                                  !.afterSweep = id \in lastOp.removed]
        /\ UNCHANGED <<wall, timingVars, adapterVars, renderVars>>

CloseSpan ==
    /\ Called
    /\ \E id \in Ids :
        /\ IF id \in Keys(spans)
           THEN /\ spans' = close_span(spans, id, wall)
                /\ lastOp' = [NoOp EXCEPT !.op = "close_span", !.id = id]
           ELSE /\ spans' = spans
                /\ lastOp' = [NoOp EXCEPT !.op = "close_span", !.id = id,
                                          !.panic = TRUE]
        /\ UNCHANGED <<wall, timingVars, adapterVars, renderVars>>

\* the clock may advance while the sweep runs: entries after the k-th read a
\* later Local::now() than the first k
RemoveExpired ==
    /\ Called
    /\ \E threshold \in Thresholds, k \in 0..Len(spans) :
        LET later == IF k < Len(spans) THEN wall + 1 ELSE wall
            nowAt == [i \in DOMAIN spans |-> IF i > k THEN later ELSE wall]
        IN  /\ later <= MaxTime
            /\ spans' = remove_expired(spans, threshold, nowAt)
            /\ wall' = later
            /\ lastOp' = [NoOp EXCEPT !.op = "remove_expired",
                                      !.threshold = threshold, !.nowAt = nowAt,
                                      !.removed = Keys(spans) \ Keys(spans')]
            /\ UNCHANGED <<timingVars, adapterVars, renderVars>>

UpdateTiming ==
    /\ Called
    /\ \E id \in Ids, t \in TimingSamples :
        /\ spans' = update_timing(spans, id, t)
        /\ lastOp' = [NoOp EXCEPT !.op = "update_timing", !.id = id,
                                  !.timing = Some(t)]
        /\ UNCHANGED <<wall, timingVars, adapterVars, renderVars>>

-----------------------------------------------------------------------------
(* The capture adapter: TracingLayer (src/src/tracing_layer.rs) stacked on  *)
(* TimingLayer (src/src/timing_layer.rs) over the registry, as              *)
(* src/examples/demo.rs wires them. The registry runs the inner layer's     *)
(* handler before the outer one's, so for every notification the            *)
(* TimingLayer step comes first.                                            *)

MaxStarted == 4     \* calls the threads start, all threads together

Workers == {"w1", "w2"}                     \* threads running instrumented code
Threads == Workers \cup {"sweep", "reader"}
SpanIds == 1..MaxId                         \* span::Id is non-zero

Idle ==
    [op |-> "idle", at |-> "idle", id |-> 0, enclosing |-> None,
     threshold |-> 0, arg |-> None, copy |-> <<>>]

\* RwLock: the thread holding it for writing, if any, and those holding it
\* for reading
Unlocked == [writer |-> None, readers |-> {}]

\* a write() that is granted while readers hold the lock
RwLock_write_shared(lock) == lock.writer = None

\* when write() is granted
RwLock_write(lock) == lock.writer = None /\ lock.readers = {}

\* when read() is granted
RwLock_read(lock) == lock.writer = None

\* a write guard whose drop leaves the lock held
RwLockWriteGuard_leak(lock) == lock

\* the write guard going out of scope
RwLockWriteGuard_drop(lock) == [lock EXCEPT !.writer = None]

\* the read guard of thread t going out of scope
RwLockReadGuard_drop(lock, t) == [lock EXCEPT !.readers = @ \ {t}]

\* Option<Timing>::cloned().unwrap_or_default() in SpanRecord::from
unwrap_or_default(extensions, now) ==
    IF extensions = None THEN new(now) ELSE CHOOSE tm \in extensions : TRUE

\* an on_event that files every event under the root
TracingLayer_event_id_root(enclosing) == 0

\* ctx.event_span(event).map_or(0, |span| span.id().into_u64())
TracingLayer_event_id(enclosing) ==
    IF enclosing = None THEN 0 ELSE CHOOSE id \in enclosing : TRUE

\* an update_timing helper that leaves the store alone
TracingLayer_update_timing_skip(map, id, extensions) == map

\* an update_timing helper that stores a new Timing, not the span's
TracingLayer_update_timing_default(map, id, extensions) ==
    update_timing(map, id, new(0))

\* extensions.get::<Timing>().expect(..), handed to the store
TracingLayer_update_timing(map, id, extensions) ==
    update_timing(map, id, CHOOSE tm \in extensions : TRUE)

\* the threads that are inside a handler for span id
InFlight(id) ==
    {t \in Workers : pc[t].op # "idle" /\
        (IF pc[t].op = "event" THEN id \in pc[t].enclosing ELSE pc[t].id = id)}

Start(t) ==
    /\ pc[t] = Idle
    /\ started < MaxStarted
    /\ started' = started + 1

At(t, op, at) == pc[t].op = op /\ pc[t].at = at

Goto(t, at) == pc' = [pc EXCEPT ![t].at = at]

Return(t) == pc' = [pc EXCEPT ![t] = Idle]

\* time passes: both clocks move
AdapterTick ==
    /\ wall < MaxTime
    /\ wall' = wall + 1
    /\ clock' = clock + 1
    /\ UNCHANGED <<timing, t0, hist, spans, lastOp, calls, adapterVars, renderVars>>

\* the host creates a span: an id no live span has
CallNewSpan(t) ==
    /\ Start(t)
    /\ \E id \in SpanIds :
        /\ life[id] = "free"
        /\ life' = [life EXCEPT ![id] = "creating"]
        /\ pc' = [pc EXCEPT ![t] = [Idle EXCEPT !.op = "new_span", !.id = id,
                                                !.at = "TimingLayer"]]
    /\ UNCHANGED <<renderVars, timingVars, storeVars, ext, extLock, storeLock, snap, panicked>>

\* the host enters or exits a span it has created and not closed
CallEnterExit(t) ==
    /\ Start(t)
    /\ \E id \in SpanIds, op \in {"enter", "exit"} :
        /\ life[id] = "live"
        /\ pc' = [pc EXCEPT ![t] = [Idle EXCEPT !.op = op, !.id = id,
                                                !.at = "TimingLayer"]]
    /\ UNCHANGED <<renderVars, timingVars, storeVars, ext, life, extLock, storeLock, snap,
                   panicked>>

\* the host closes a span: once, and when no thread is inside it
CallClose(t) ==
    /\ Start(t)
    /\ \E id \in SpanIds :
        /\ life[id] = "live"
        /\ InFlight(id) = {}
        /\ life' = [life EXCEPT ![id] = "closing"]
        /\ pc' = [pc EXCEPT ![t] = [Idle EXCEPT !.op = "close", !.id = id,
                                                !.at = "TimingLayer"]]
    /\ UNCHANGED <<renderVars, timingVars, storeVars, ext, extLock, storeLock, snap, panicked>>

\* an event is recorded, inside a live span or outside every span;
\* on_event builds the EventRecord before it calls the store
CallEvent(t) ==
    /\ Start(t)
    /\ EventCount(spans) < MaxEvents
    /\ \E enclosing \in {None} \cup {Some(id) : id \in {i \in SpanIds : life[i] = "live"}} :
        pc' = [pc EXCEPT ![t] = [Idle EXCEPT !.op = "event",
                    !.enclosing = enclosing,
                    !.id = TracingLayer_event_id(enclosing),
                    !.arg = Some(EventRecord_from("INFO", <<[name |-> "message", value |-> "x"]>>, wall)),
                    !.at = "lock"]]
    /\ UNCHANGED <<renderVars, timingVars, storeVars, ext, life, extLock, storeLock, snap,
                   panicked>>

\* TimingLayer::on_new_span: extensions_mut().insert(Timing::new())
TimingLayer_on_new_span(t) ==
    /\ At(t, "new_span", "TimingLayer")
    /\ RwLock_write(extLock[pc[t].id])
    /\ ext' = [ext EXCEPT ![pc[t].id] = Some(new(clock))]
    /\ Goto(t, "from")
    /\ UNCHANGED <<renderVars, timingVars, storeVars, life, extLock, storeLock, snap, started,
                   panicked>>

\* TimingLayer::on_enter, on_exit, on_close: the span's Timing, under the
\* write lock of the extensions
TimingLayer_on(t, op, result) ==
    /\ At(t, op, "TimingLayer")
    /\ RwLock_write(extLock[pc[t].id])
    /\ ext' = [ext EXCEPT ![pc[t].id] = Some(result)]
    /\ Goto(t, "extensions")
    /\ UNCHANGED <<renderVars, timingVars, storeVars, life, extLock, storeLock, snap, started,
                   panicked>>

Live(id) == CHOOSE tm \in ext[id] : TRUE

TimingLayer_on_enter(t) ==
    TimingLayer_on(t, "enter", enter(Live(pc[t].id), clock))

TimingLayer_on_exit(t) ==
    TimingLayer_on(t, "exit", exit(Live(pc[t].id), clock))

TimingLayer_on_close(t) ==
    TimingLayer_on(t, "close", close(Live(pc[t].id), clock))

\* TracingLayer::on_new_span: span.into(), which reads the extensions and
\* the wall clock
SpanRecord_from_SpanRef(t) ==
    /\ At(t, "new_span", "from")
    /\ RwLock_read(extLock[pc[t].id])
    /\ pc' = [pc EXCEPT ![t].at = "lock",
                        ![t].arg = Some(SpanRecord_from(
                            unwrap_or_default(ext[pc[t].id], clock),
                            "DEBUG", "work", "demo", wall))]
    /\ UNCHANGED <<renderVars, timingVars, storeVars, ext, life, extLock, storeLock, snap,
                   started, panicked>>

\* TracingLayer::update_timing: span.extensions(), a read guard that lives
\* until the helper returns
TracingLayer_extensions(t) ==
    /\ pc[t].op \in {"enter", "exit", "close"}
    /\ pc[t].at = "extensions"
    /\ RwLock_read(extLock[pc[t].id])
    /\ extLock' = [extLock EXCEPT ![pc[t].id].readers = @ \cup {t}]
    /\ Goto(t, "lock")
    /\ UNCHANGED <<renderVars, timingVars, storeVars, ext, life, storeLock, snap, started,
                   panicked>>

\* self.spans.write() of a store operation: the thread waits here
TraceStore_write(t) ==
    /\ pc[t].at \in {"lock", "close_lock"}
    /\ pc[t].op # "spans"
    /\ RwLock_write(storeLock)
    /\ storeLock' = [storeLock EXCEPT !.writer = Some(t)]
    /\ Goto(t, IF pc[t].at = "lock" THEN "write" ELSE "close_write")
    /\ UNCHANGED <<renderVars, timingVars, storeVars, ext, life, extLock, snap, started,
                   panicked>>

\* TracingLayer::on_new_span: insert_span under the write lock, and return
InsertSpanWrite(t) ==
    /\ At(t, "new_span", "write")
    /\ spans' = insert_span(spans, pc[t].id, CHOOSE span \in pc[t].arg : TRUE)
    /\ storeLock' = RwLockWriteGuard_drop(storeLock)
    /\ life' = [life EXCEPT ![pc[t].id] = "live"]
    /\ Return(t)
    /\ UNCHANGED <<renderVars, timingVars, wall, lastOp, calls, ext, extLock, snap, started,
                   panicked>>

\* TracingLayer::update_timing: the store's update_timing under the write
\* lock; then both guards drop. on_enter and on_exit return, on_close goes
\* on to close_span
UpdateTimingWrite(t) ==
    /\ pc[t].op \in {"enter", "exit", "close"}
    /\ pc[t].at = "write"
    /\ spans' = TracingLayer_update_timing(spans, pc[t].id, ext[pc[t].id])
    /\ storeLock' = RwLockWriteGuard_drop(storeLock)
    /\ extLock' = [extLock EXCEPT ![pc[t].id] = RwLockReadGuard_drop(@, t)]
    /\ IF pc[t].op = "close" THEN Goto(t, "close_lock") ELSE Return(t)
    /\ UNCHANGED <<renderVars, timingVars, wall, lastOp, calls, ext, life, snap, started,
                   panicked>>

\* TracingLayer::on_close: close_span under the write lock, which unwraps
\* the record; the handler returns and the registry frees the span
CloseSpanWrite(t) ==
    /\ At(t, "close", "close_write")
    /\ IF pc[t].id \in Keys(spans)
       THEN spans' = close_span(spans, pc[t].id, wall) /\ UNCHANGED panicked
       ELSE spans' = spans /\ panicked' = TRUE
    /\ storeLock' = RwLockWriteGuard_drop(storeLock)
    /\ life' = [life EXCEPT ![pc[t].id] = "free"]
    /\ ext' = [ext EXCEPT ![pc[t].id] = None]
    /\ Return(t)
    /\ UNCHANGED <<renderVars, timingVars, wall, lastOp, calls, extLock, snap, started>>

\* TracingLayer::on_event: insert_event under the write lock, and return
InsertEventWrite(t) ==
    /\ At(t, "event", "write")
    /\ spans' = insert_event(spans, TracingLayer_event_id(pc[t].enclosing),
                             CHOOSE event \in pc[t].arg : TRUE)
    /\ storeLock' = RwLockWriteGuard_drop(storeLock)
    /\ Return(t)
    /\ UNCHANGED <<renderVars, timingVars, wall, lastOp, calls, ext, life, extLock, snap,
                   started, panicked>>

\* the application's tick calls remove_expired
CallRemoveExpired ==
    /\ Start("sweep")
    /\ \E threshold \in Thresholds :
        pc' = [pc EXCEPT !["sweep"] = [Idle EXCEPT !.op = "remove_expired",
                                    !.threshold = threshold, !.at = "lock"]]
    /\ UNCHANGED <<renderVars, timingVars, storeVars, ext, life, extLock, storeLock, snap,
                   panicked>>

\* remove_expired under the write lock
RemoveExpiredWrite ==
    /\ At("sweep", "remove_expired", "write")
    /\ spans' = remove_expired(spans, pc["sweep"].threshold,
                               [i \in DOMAIN spans |-> wall])
    /\ storeLock' = RwLockWriteGuard_drop(storeLock)
    /\ Return("sweep")
    /\ UNCHANGED <<renderVars, timingVars, wall, lastOp, calls, ext, life, extLock, snap,
                   started, panicked>>

\* the application's render loop calls spans()
CallSpans ==
    /\ Start("reader")
    /\ pc' = [pc EXCEPT !["reader"] = [Idle EXCEPT !.op = "spans", !.at = "lock"]]
    /\ UNCHANGED <<renderVars, timingVars, storeVars, ext, life, extLock, storeLock, snap,
                   panicked>>

\* self.spans.read()
TraceStore_read ==
    /\ At("reader", "spans", "lock")
    /\ RwLock_read(storeLock)
    /\ storeLock' = [storeLock EXCEPT !.readers = @ \cup {"reader"}]
    /\ Goto("reader", "copy")
    /\ UNCHANGED <<renderVars, timingVars, storeVars, ext, life, extLock, snap, started,
                   panicked>>

\* spans.values().cloned(): one record after the other
SpansClone ==
    /\ At("reader", "spans", "copy")
    /\ Len(pc["reader"].copy) < Len(spans)
    /\ pc' = [pc EXCEPT !["reader"].copy =
                    Append(@, spans[Len(pc["reader"].copy) + 1].value)]
    /\ UNCHANGED <<renderVars, timingVars, storeVars, ext, life, extLock, storeLock, snap,
                   started, panicked>>

\* .collect(): the iterator is at its end, the read guard drops, the Vec
\* is returned
SpansReturn ==
    /\ At("reader", "spans", "copy")
    /\ Len(pc["reader"].copy) >= Len(spans)
    /\ snap' = Some(pc["reader"].copy)
    /\ storeLock' = RwLockReadGuard_drop(storeLock, "reader")
    /\ Return("reader")
    /\ UNCHANGED <<renderVars, timingVars, storeVars, ext, life, extLock, started, panicked>>

\* what one worker thread does next inside the call it is running
WorkerStep(t) ==
    \/ TimingLayer_on_new_span(t)
    \/ TimingLayer_on_enter(t)
    \/ TimingLayer_on_exit(t)
    \/ TimingLayer_on_close(t)
    \/ SpanRecord_from_SpanRef(t)
    \/ TracingLayer_extensions(t)
    \/ TraceStore_write(t)
    \/ InsertSpanWrite(t)
    \/ UpdateTimingWrite(t)
    \/ CloseSpanWrite(t)
    \/ InsertEventWrite(t)

SweepStep == TraceStore_write("sweep") \/ RemoveExpiredWrite

ReaderStep == TraceStore_read \/ SpansClone \/ SpansReturn

-----------------------------------------------------------------------------
(* Specifications *)

TimingInit(c) ==
    /\ clock = c
    /\ t0 = c
    /\ timing = new(c)
    /\ hist = <<>>

StoreInit ==
    /\ wall = 0
    /\ spans = TraceStore_default(0, 0)
    /\ lastOp = NoOp
    /\ calls = 0

AdapterInit ==
    /\ pc = [t \in Threads |-> Idle]
    /\ ext = [id \in SpanIds |-> None]
    /\ life = [id \in SpanIds |-> "free"]
    /\ extLock = [id \in SpanIds |-> Unlocked]
    /\ storeLock = Unlocked
    /\ snap = None
    /\ started = 0
    /\ panicked = FALSE
    /\ text = None

Init == TimingInit(0) /\ StoreInit /\ AdapterInit

InitTiming == (\E c \in 0..1 : TimingInit(c)) /\ StoreInit /\ AdapterInit

Next ==
    \/ Tick
    \/ InsertSpan
    \/ InsertEvent
    \/ CloseSpan
    \/ RemoveExpired
    \/ UpdateTiming

NextTiming ==
    \/ Advance
    \/ Enter
    \/ Exit
    \/ Close

Spec == Init /\ [][Next]_vars

SpecTiming == InitTiming /\ [][NextTiming]_vars

NextAdapter ==
    \/ AdapterTick
    \/ \E t \in Workers : CallNewSpan(t)
    \/ \E t \in Workers : CallEnterExit(t)
    \/ \E t \in Workers : CallClose(t)
    \/ \E t \in Workers : CallEvent(t)
    \/ CallRemoveExpired
    \/ CallSpans
    \/ \E t \in Workers : WorkerStep(t)
    \/ SweepStep
    \/ ReaderStep

SpecAdapter == Init /\ [][NextAdapter]_vars

\* a thread that can take its next step does take it
SpecAdapterFair ==
    /\ SpecAdapter
    /\ \A t \in Workers : WF_vars(WorkerStep(t))
    /\ WF_vars(SweepStep)
    /\ WF_vars(ReaderStep)

-----------------------------------------------------------------------------
(* Reading the history of the Timing under test *)

Closes(h) == {i \in DOMAIN h : h[i].op = "close"}

\* the position of the first close(), past the end when there is none
FirstClose(h) ==
    IF Closes(h) = {} THEN Len(h) + 1
    ELSE CHOOSE i \in Closes(h) : \A j \in Closes(h) : i <= j

\* calls of `op` made before the first close()
CallsBeforeClose(h, op) ==
    Cardinality({i \in DOMAIN h : i < FirstClose(h) /\ h[i].op = op})

StateAfter(op) ==
    CASE op = "enter" -> "Busy"
      [] op = "exit" -> "Idle"
      [] op = "close" -> "Closed"

\* the state the i-th interval started in, and the interval's length
StartState(h, i) == IF i = 1 THEN "Idle" ELSE StateAfter(h[i - 1].op)
IntervalLen(h, i) == h[i].at - (IF i = 1 THEN t0 ELSE h[i - 1].at)

RECURSIVE IntervalSum(_, _, _)
IntervalSum(h, st, i) ==
    IF i = 0 THEN 0
    ELSE (IF StartState(h, i) = st THEN IntervalLen(h, i) ELSE 0)
            + IntervalSum(h, st, i - 1)

LastCallAt(h) == IF h = <<>> THEN t0 ELSE h[Len(h)].at

-----------------------------------------------------------------------------
(* The Timing state machine: claims C1 to C5, under SpecTiming *)

Frozen(a, b) ==
    /\ b.idle = a.idle
    /\ b.busy = a.busy
    /\ b.state = a.state
    /\ b.enter_count = a.enter_count
    /\ b.exit_count = a.exit_count

\* C1: once a Timing is Closed, no later enter(), exit() or close() changes its
\* idle_duration, busy_duration, state, enter_count or exit_count.
C1_ClosedIsTerminal ==
    [][timing.state = "Closed" => Frozen(timing, timing')]_vars

\* C2: for a run of enter()/exit() calls on a new Timing, ended by at most one
\* close(), idle_duration is the sum of the intervals that started Idle,
\* busy_duration the sum of those that started Busy, and the state is the one
\* the last call sets (enter: Busy, exit: Idle, close: Closed).
C2_DurationsByStartState ==
    FirstClose(hist) >= Len(hist) =>
        /\ timing.idle = IntervalSum(hist, "Idle", Len(hist))
        /\ timing.busy = IntervalSum(hist, "Busy", Len(hist))
        /\ timing.state = StartState(hist, Len(hist) + 1)

\* a run that enters twice in a row, exits while idle or not, and ends with
\* its only close(), with time spent both idle and busy
C2_Witness ==
    /\ Len(hist) >= 3
    /\ FirstClose(hist) = Len(hist)
    /\ \E i \in 1..(Len(hist) - 1) :
          /\ hist[i].op = hist[i + 1].op
          /\ hist[i].at < hist[i + 1].at
    /\ timing.idle > 0
    /\ timing.busy > 0
    /\ timing.state = "Closed"

\* C3: enter_count is the number of enter() calls made before the first
\* close(), exit_count the number of exit() calls made before it, and a
\* close() call leaves exit_count as it was.
C3_CountsStopAtClose ==
    [][/\ timing'.enter_count = CallsBeforeClose(hist', "enter")
       /\ timing'.exit_count = CallsBeforeClose(hist', "exit")
       /\ (Len(hist') > Len(hist) /\ hist'[Len(hist')].op = "close"
             => timing'.exit_count = timing.exit_count)]_vars

\* C4: total_duration is idle_duration + busy_duration, and up to and
\* including the first close() it is the clock time from Timing::new() to the
\* most recent call.
C4_TotalIsElapsed ==
    /\ total_duration(timing) = timing.idle + timing.busy
    /\ FirstClose(hist) >= Len(hist) =>
          total_duration(timing) = LastCallAt(hist) - t0

\* the first close() has just run after time went by idle and busy, on a
\* Timing that was not created at clock zero
C4_Witness ==
    /\ t0 > 0
    /\ Len(hist) >= 3
    /\ FirstClose(hist) = Len(hist)
    /\ timing.idle > 0
    /\ timing.busy > 0
    /\ total_duration(timing) = clock - t0

\* C5: no operation decreases idle_duration, busy_duration, enter_count or
\* exit_count.
C5_NeverDecreases ==
    [][/\ timing'.idle >= timing.idle
       /\ timing'.busy >= timing.busy
       /\ timing'.enter_count >= timing.enter_count
       /\ timing'.exit_count >= timing.exit_count]_vars

\* every kind of call has run, one of them after a close(), and all four
\* values have grown
C5_Witness ==
    /\ Len(hist) = MaxCalls
    /\ FirstClose(hist) < Len(hist)
    /\ {hist[i].op : i \in DOMAIN hist} = {"enter", "exit", "close"}
    /\ timing.idle > 0
    /\ timing.busy > 0
    /\ timing.enter_count > 0
    /\ timing.exit_count > 0

-----------------------------------------------------------------------------
(* The record store: claims C6 to C10, under Spec *)

IsPrefix(a, b) == Len(a) <= Len(b) /\ SubSeq(b, 1, Len(a)) = a

\* the step is the call `op`, made for `id`
Did(op) == calls' > calls /\ lastOp'.op = op

\* every record but the one at `id` is the same before and after the step
OthersUnchanged(id) ==
    /\ Len(spans') = Len(spans)
    /\ \A i \in DOMAIN spans :
          /\ spans'[i].key = spans[i].key
          /\ spans[i].key # id => spans'[i] = spans[i]

\* C6: remove_expired(threshold) removes exactly the records whose close_time
\* is set and whose age, now - close_time, is strictly greater than threshold;
\* a closed record of age <= threshold and every open record are kept, and
\* the kept records are unchanged.
C6_RemoveExpiredExact ==
    [][Did("remove_expired") =>
          /\ Keys(spans') \subseteq Keys(spans)
          /\ \A i \in DOMAIN spans :
                spans[i].key \notin Keys(spans') <=>
                    \E close_time \in spans[i].value.close_time :
                        lastOp'.nowAt[i] - close_time > lastOp'.threshold
          /\ \A id \in Keys(spans') : Get(spans', id) = Get(spans, id)]_vars

\* a sweep has removed a record and kept a closed one whose age is exactly
\* the threshold
C6_Witness ==
    /\ lastOp.op = "remove_expired"
    /\ lastOp.removed # {}
    /\ \A i \in DOMAIN lastOp.nowAt : lastOp.nowAt[i] = wall
    /\ \E i \in DOMAIN spans :
          spans[i].value.close_time = Some(wall - lastOp.threshold)

\* C7: in every reachable state the record with id 0 is present and is the
\* sentinel root, so a snapshot is never empty.
C7_RootAlwaysPresent ==
    /\ 0 \in Keys(spans)
    /\ Get(spans, 0).name = "root"
    /\ Get(spans, 0).target = "root"
    /\ TraceStore_spans(spans) # <<>>

\* C8: insert_event for an id that is not in the store, never inserted or
\* just evicted, leaves the store as it was and raises no error.
C8_InsertEventAbsentIsNoOp ==
    [][Did("insert_event") /\ lastOp'.id \notin Keys(spans) =>
          /\ spans' = spans
          /\ ~lastOp'.panic]_vars

\* an event arrived for an id that the sweep just before it had removed
C8_Witness ==
    /\ lastOp.op = "insert_event"
    /\ lastOp.id \notin Keys(spans)
    /\ lastOp.afterSweep
    /\ spans # <<>>

\* C9: insert_event(id, e) for a present id appends exactly e to that
\* record's events, keeps the events already there in their order, and
\* changes nothing else; from one state to the next the events of a record
\* that is neither evicted nor overwritten only grow at the end.
C9_InsertEventAppends ==
    [][/\ Did("insert_event") /\ lastOp'.id \in Keys(spans) =>
            /\ OthersUnchanged(lastOp'.id)
            /\ \E e \in lastOp'.event :
                  Get(spans', lastOp'.id) =
                      [Get(spans, lastOp'.id) EXCEPT !.events = Append(@, e)]
       /\ \A id \in Keys(spans) \cap Keys(spans') :
            ~(Did("insert_span") /\ lastOp'.id = id) =>
                IsPrefix(Get(spans, id).events, Get(spans', id).events)]_vars

\* a second, different event has been appended to a record, in a store that
\* holds another record as well
C9_Witness ==
    /\ lastOp.op = "insert_event"
    /\ lastOp.id \in Keys(spans)
    /\ Len(spans) >= 2
    /\ LET events == Get(spans, lastOp.id).events
       IN  /\ Len(events) = 2
           /\ events[1] # events[2]
           /\ Some(events[2]) = lastOp.event

\* C10, as claimed: close_span(id) on a present record sets its close_time to
\* the current time and makes its stored timing state Closed.
C10_CloseSpanClosesTiming ==
    [][Did("close_span") /\ ~lastOp'.panic =>
          /\ Get(spans', lastOp'.id).close_time = Some(wall)
          /\ Get(spans', lastOp'.id).timing.state = "Closed"]_vars

\* C10, amended: close_span(id) on a present record sets its close_time to
\* the current time and changes nothing else: the stored timing, its state
\* included, is the one stored before the call.
C10_CloseSpanSetsCloseTime ==
    [][Did("close_span") /\ ~lastOp'.panic =>
          /\ OthersUnchanged(lastOp'.id)
          /\ Get(spans', lastOp'.id) =
                [Get(spans, lastOp'.id) EXCEPT !.close_time = Some(wall)]]_vars

\* a span inserted and then closed: close_time is set, the timing is Idle
C10_Witness ==
    /\ lastOp.op = "close_span"
    /\ ~lastOp.panic
    /\ lastOp.id # 0
    /\ Get(spans, lastOp.id).close_time = Some(wall)
    /\ Get(spans, lastOp.id).timing.state = "Idle"

-----------------------------------------------------------------------------
(* The record store: claims C11 to C14, under Spec *)

\* the step is the call `op` made for `id`
DidFor(op, id) == Did(op) /\ lastOp'.id = id

\* the record at `id` after the step is the one before it, carried on: the
\* same span, with the events it had still at the front
CarriedOn(id) ==
    LET old == Get(spans, id)
        cur == Get(spans', id)
    IN  /\ cur.start_time = old.start_time
        /\ cur.level = old.level
        /\ cur.name = old.name
        /\ cur.target = old.target
        /\ IsPrefix(old.events, cur.events)

\* C11, as claimed: once the close_time of the record at an id is set, no
\* store operation clears or changes it while the id stays in the store.
C11_CloseTimeNeverChanges ==
    [][\A id \in Keys(spans) \cap Keys(spans') :
          Get(spans, id).close_time # None =>
              Get(spans', id).close_time = Get(spans, id).close_time]_vars

\* C11, amended: a close_time that is set is left as it is by insert_event,
\* update_timing and remove_expired while the id stays in the store;
\* close_span sets it again, to the time of that call, and insert_span puts
\* the new record in its place, with the new record's close_time.
C11_CloseTimeKeptByOtherCalls ==
    [][\A id \in Keys(spans) \cap Keys(spans') :
          Get(spans, id).close_time # None =>
              Get(spans', id).close_time =
                  IF DidFor("close_span", id) THEN Some(wall)
                  ELSE IF DidFor("insert_span", id)
                       THEN UNION {r.close_time : r \in lastOp'.span}
                  ELSE Get(spans, id).close_time]_vars

\* update_timing has just run on a record that was closed at an earlier time
C11_Witness ==
    /\ lastOp.op = "update_timing"
    /\ lastOp.id \in Keys(spans)
    /\ \E close_time \in Get(spans, lastOp.id).close_time : close_time < wall
    /\ lastOp.timing = Some(Get(spans, lastOp.id).timing)

\* C12, as claimed: a record, with its events, leaves the store only through
\* remove_expired and never while its close_time is unset; no other call,
\* insert_span for a present id included, removes or discards a record.
C12_RecordsLeaveOnlyBySweep ==
    [][\A id \in Keys(spans) :
          IF id \in Keys(spans')
          THEN CarriedOn(id)
          ELSE Did("remove_expired") /\ Get(spans, id).close_time # None]_vars

\* C12, amended: a record leaves the store through remove_expired, and then
\* its close_time is set, or it is replaced by insert_span for its id, which
\* discards it and its events; no other call removes or discards a record.
C12_RecordsLeaveBySweepOrInsert ==
    [][\A id \in Keys(spans) :
          IF id \in Keys(spans')
          THEN DidFor("insert_span", id) \/ CarriedOn(id)
          ELSE Did("remove_expired") /\ Get(spans, id).close_time # None]_vars

\* a sweep has removed a record and left an open one that holds an event
C12_Witness ==
    /\ lastOp.op = "remove_expired"
    /\ lastOp.removed # {}
    /\ \E i \in DOMAIN spans :
          /\ spans[i].value.close_time = None
          /\ spans[i].value.events # <<>>

\* C13: update_timing(id, t) makes t the stored timing of the record at id
\* and changes nothing else; for an absent id it changes nothing, creates no
\* record and raises no error.
C13_UpdateTimingOnly ==
    [][Did("update_timing") =>
          /\ ~lastOp'.panic
          /\ IF lastOp'.id \in Keys(spans)
             THEN /\ OthersUnchanged(lastOp'.id)
                  /\ \E t \in lastOp'.timing :
                        Get(spans', lastOp'.id) =
                            [Get(spans, lastOp'.id) EXCEPT !.timing = t]
             ELSE spans' = spans]_vars

\* a closed record that holds an event has got a timing it did not have
C13_Witness ==
    /\ lastOp.op = "update_timing"
    /\ lastOp.id \in Keys(spans)
    /\ Len(spans) >= 2
    /\ LET r == Get(spans, lastOp.id)
       IN  /\ r.close_time # None
           /\ r.events # <<>>
           /\ Some(r.timing) = lastOp.timing
           /\ r.timing.state = "Closed"

\* C14: insert_span(id, r) makes the record at id equal to r whether or not
\* id was present, leaves the other records as they were, and adds one to
\* the number of records when id was absent and nothing when it was present.
C14_InsertSpanSetsRecord ==
    [][Did("insert_span") =>
          /\ lastOp'.id \in Keys(spans')
          /\ Some(Get(spans', lastOp'.id)) = lastOp'.span
          /\ \A id \in Keys(spans) \ {lastOp'.id} :
                id \in Keys(spans') /\ Get(spans', id) = Get(spans, id)
          /\ Len(spans') =
                Len(spans) + (IF lastOp'.id \in Keys(spans) THEN 0 ELSE 1)]_vars

\* insert_span has replaced a record where it stood, ahead of a record that
\* was inserted after it and still holds its event
C14_Witness ==
    /\ lastOp.op = "insert_span"
    /\ Len(spans) >= 2
    /\ IndexOf(spans, lastOp.id) < Len(spans)
    /\ Some(Get(spans, lastOp.id)) = lastOp.span
    /\ spans[Len(spans)].value.events # <<>>

-----------------------------------------------------------------------------
(* The adapter under concurrent threads (SpecAdapter) *)

\* thread t takes the step that ends its call op from position at
Returns(t, op, at) == At(t, op, at) /\ pc'[t] = Idle

\* C15: an event notification with an enclosing span is appended to the
\* record of that span's id, one with no enclosing span to the record with
\* id 0; the store holds the same ids, in the same order, before and after,
\* so the adapter creates no record.
C15_EventGoesToEnclosingOrRoot ==
    [][\A t \in Workers, home \in Ids :
          (/\ Returns(t, "event", "write")
           /\ \/ pc[t].enclosing = Some(home)
              \/ pc[t].enclosing = None /\ home = 0) =>
                /\ home \in Keys(spans)
                /\ Get(spans', home).events \in
                        {Append(Get(spans, home).events, e) : e \in pc[t].arg}
                /\ OthersUnchanged(home)]_vars

\* both kinds of event have been recorded: one inside span 1, one outside
\* every span
C15_Witness ==
    /\ Keys(spans) = {0, 1}
    /\ Len(Get(spans, 0).events) = 1
    /\ Len(Get(spans, 1).events) = 1
    /\ \A t \in Workers : pc[t] = Idle

\* C16: the handlers of a span-closed notification run the Timing close, then
\* the store's update_timing, then close_span: update_timing stores a Closed
\* timing into a record that is still open, close_span finds the stored
\* timing Closed, and when the handler returns the record of the id has its
\* close_time set and a Closed timing snapshot.
C16_CloseOrder ==
    [][\A t \in Workers :
          LET id == pc[t].id
          IN  /\ (At(t, "close", "write") /\ pc'[t].at = "close_lock") =>
                    /\ Live(id).state = "Closed"
                    /\ id \in Keys(spans')
                    /\ Get(spans', id).timing = Live(id)
                    /\ Get(spans', id).close_time = None
              /\ Returns(t, "close", "close_write") =>
                    /\ id \in Keys(spans) /\ id \in Keys(spans')
                    /\ Get(spans, id).timing.state = "Closed"
                    /\ Get(spans, id).close_time = None
                    /\ Get(spans', id).close_time = Some(wall)
                    /\ Get(spans', id).timing.state = "Closed"]_vars

\* a span that was entered has been closed and its handler has returned
C16_Witness ==
    /\ life[1] = "free"
    /\ 1 \in Keys(spans)
    /\ Get(spans, 1).close_time # None
    /\ Get(spans, 1).timing.state = "Closed"
    /\ Get(spans, 1).timing.enter_count = 1
    /\ \A t \in Workers : pc[t] = Idle

\* the threads inside an enter, exit, new-span or close handler of span id
Handling(id) ==
    {t \in Workers : pc[t].op \in {"new_span", "enter", "exit", "close"}
                        /\ pc[t].id = id}

\* C17: whenever no enter or exit handler of a live span is running, the
\* span has a record and its stored timing snapshot equals the span's live
\* Timing: each handler applies the Timing operation first and stores the
\* result after it.
C17_StoredTimingIsLive ==
    \A id \in SpanIds :
        (life[id] = "live" /\ Handling(id) = {}) =>
            /\ id \in Keys(spans)
            /\ Some(Get(spans, id).timing) = ext[id]

\* span 1 was entered and exited, some time apart, and both handlers have
\* returned
C17_Witness ==
    /\ life[1] = "live"
    /\ Handling(1) = {}
    /\ 1 \in Keys(spans)
    /\ Get(spans, 1).timing.enter_count = 1
    /\ Get(spans, 1).timing.exit_count = 1
    /\ Get(spans, 1).timing.busy > 0

\* C18: the Vec spans() returns equals the store's contents at the instant
\* the read guard drops, which lies between the call and the return, so it
\* holds no partly applied mutation; and no later step changes a returned
\* Vec.
C18_SnapshotIsStoreAtOneInstant ==
    [][IF Returns("reader", "spans", "copy")
       THEN snap' = Some(TraceStore_spans(spans))
       ELSE snap' = snap]_vars

\* a snapshot of two records was returned while a writer waited for the
\* lock, and the store has changed since
C18_Witness ==
    /\ \E v \in snap : Len(v) = 2 /\ v # TraceStore_spans(spans)
    /\ pc["reader"] = Idle
    /\ \E t \in Workers : Get(spans, 1).timing.enter_count = 1 /\ pc[t] = Idle

\* C19: under the host's contract, with remove_expired of any threshold
\* interleaved, every span created and not yet closed has a record in the
\* store, and close_span has never run for an absent id.
C19_CreatedSpanHasRecord ==
    /\ ~panicked
    /\ \A id \in SpanIds : life[id] \in {"live", "closing"} => id \in Keys(spans)

\* a sweep that evicts every closed record holds the store between the
\* update_timing and the close_span of a close handler, some time after
\* the span was created
C19_Witness ==
    /\ At("sweep", "remove_expired", "write")
    /\ pc["sweep"].threshold < 0
    /\ \E t \in Workers : At(t, "close", "close_lock")
    /\ Get(spans, 1).timing.state = "Closed"
    /\ wall > Get(spans, 1).start_time

\* the store lock is requested only by threads that do not hold it
NoReentry ==
    \A t \in Threads :
        pc[t].at \in {"lock", "close_lock"} =>
            t \notin storeLock.writer \cup storeLock.readers

\* a thread that holds the store lock is not where a handler takes the
\* lock of a span's extensions: the extensions lock is taken first, if at all
LockOrder ==
    \A t \in Threads :
        t \in storeLock.writer \cup storeLock.readers =>
            pc[t].at \notin {"TimingLayer", "from", "extensions"}

\* C20: under fair scheduling every started call returns, so that whenever
\* calls are in progress a state follows in which all of them have returned;
\* no thread asks for the store lock while holding it, and no thread asks
\* for a span's extensions lock while holding the store lock.
C20_NoDeadlock ==
    /\ [](NoReentry /\ LockOrder)
    /\ (\E t \in Threads : pc[t] # Idle) ~> (\A t \in Threads : pc[t] = Idle)

\* one handler holds the extensions of span 1 for reading and waits for the
\* store, which the sweep holds; the other handler waits for the extensions
C20_Witness ==
    /\ \E t \in Workers : t \in extLock[1].readers /\ pc[t].at = "lock"
    /\ \E u \in Workers : pc[u].at = "TimingLayer" /\ pc[u].id = 1
    /\ storeLock.writer = Some("sweep")

-----------------------------------------------------------------------------
(* Order of the snapshot (Spec) *)

\* the ids of the store, in the order spans() returns their records
KeySeq(map) == [i \in DOMAIN map |-> map[i].key]

\* one step keeps the ids that stay in their relative order and puts the
\* ids that are new behind them
OrderKept ==
    LET stay == Keys(spans) \cap Keys(spans')
        kept == SelectSeq(KeySeq(spans), LAMBDA k : k \in stay)
    IN  /\ IsPrefix(kept, KeySeq(spans'))
        /\ \A i \in DOMAIN spans' : i > Len(kept) => spans'[i].key \notin Keys(spans)

\* no store operation reorders the records that stay: insert_span of a
\* present id keeps its position, remove_expired keeps the relative order
InsertionOrderKept == [][OrderKept]_vars

\* C22: the snapshot lists the records in the order their ids were inserted,
\* the root first: an overwritten id keeps its position, remove_expired keeps
\* the relative order of what it retains, and the first record is record 0.
C22_InsertionOrderRootFirst ==
    [][/\ OrderKept
       /\ Len(TraceStore_spans(spans')) >= 1
       /\ spans'[1].key = 0]_vars

-----------------------------------------------------------------------------
(* close() on a closed Timing (SpecTiming) *)

\* C23: when close() is called on a Timing whose last call was a close(),
\* the clock time that passed in between is added to neither duration:
\* idle_duration, busy_duration and total_duration are what they were right
\* after the first close().
C23_CloseWhileClosed ==
    [][(/\ hist # <<>>
        /\ hist[Len(hist)].op = "close"
        /\ Len(hist') > Len(hist)
        /\ hist'[Len(hist')].op = "close") =>
            /\ timing'.idle = timing.idle
            /\ timing'.busy = timing.busy
            /\ total_duration(timing') = total_duration(timing)
            /\ timing'.state = "Closed"]_vars

\* the shape of tests::timing_close_while_closed: idle, enter, busy, close,
\* more time, close
C23_Witness ==
    /\ Len(hist) = 3
    /\ hist[1].op = "enter" /\ hist[1].at > t0
    /\ hist[2].op = "close" /\ hist[2].at > hist[1].at
    /\ hist[3].op = "close" /\ hist[3].at > hist[2].at
    /\ timing.idle = hist[1].at - t0
    /\ timing.busy = hist[2].at - hist[1].at

-----------------------------------------------------------------------------
(* Closed records and their timing (SpecAdapter) *)

\* every record of the sequence that has a close_time has a Closed timing
ClosedHaveClosedTiming(records) ==
    \A i \in DOMAIN records :
        records[i].close_time # None => records[i].timing.state = "Closed"

\* C24: with the spans driven through the adapter under the host's
\* contract, in the store at every instant and in every Vec spans() has
\* returned, a record whose close_time is set has a stored timing whose
\* state is Closed.
C24_ClosedRecordHasClosedTiming ==
    /\ ClosedHaveClosedTiming(TraceStore_spans(spans))
    /\ \A v \in snap : ClosedHaveClosedTiming(v)

\* the converse fails in a snapshot taken between the two store writes of a
\* span-closed notification (a Closed timing in a record still open), and
\* the same span is closed in the store by now
C24_Witness ==
    /\ \E v \in snap : \E i \in DOMAIN v :
            v[i].timing.state = "Closed" /\ v[i].close_time = None
    /\ 1 \in Keys(spans)
    /\ Get(spans, 1).close_time # None
    /\ Get(spans, 1).timing.state = "Closed"

-----------------------------------------------------------------------------
(* The stored timing under concurrent enter and exit (SpecAdapter) *)

\* timing b is nowhere behind timing a
NotBehind(a, b) ==
    /\ b.enter_count >= a.enter_count
    /\ b.exit_count >= a.exit_count
    /\ b.idle >= a.idle
    /\ b.busy >= a.busy

\* C25: from one store state to the next, as long as the record of a span
\* stays and is not replaced by a new span of the same id, its stored
\* enter_count, exit_count, idle_duration and busy_duration do not decrease,
\* also when several threads run enter and exit handlers of the span at once.
C25_StoredTimingNeverGoesBack ==
    [][\A id \in SpanIds :
          (/\ id \in Keys(spans) /\ id \in Keys(spans')
           /\ ~\E t \in Workers : Returns(t, "new_span", "write") /\ pc[t].id = id) =>
                NotBehind(Get(spans, id).timing, Get(spans', id).timing)]_vars

\* two threads are inside handlers of span 1 at once, both holding its
\* extensions for reading; the live Timing is ahead of the stored one, which
\* an earlier handler has already updated
C25_Witness ==
    /\ \A t \in Workers : pc[t].op \in {"enter", "exit"} /\ pc[t].id = 1
    /\ extLock[1].readers = Workers
    /\ Get(spans, 1).timing.enter_count >= 1
    /\ Live(1).exit_count >= 1
    /\ Live(1) # Get(spans, 1).timing

-----------------------------------------------------------------------------
(* Eviction in the long run: the store under a periodic sweep, as          *)
(* App::event_loop drives it (src/examples/demo.rs)                        *)

\* far enough for a record closed at MaxTime to pass every threshold
Horizon == MaxTime + MaxThreshold + 1

\* the threshold the application sweeps with, the same at every tick
SweepThreshold == pc["sweep"].threshold

\* time passes, also after the last store call
TickOn ==
    /\ wall < Horizon
    /\ wall' = wall + 1
    /\ lastOp' = [NoOp EXCEPT !.op = "tick", !.removed = lastOp.removed]
    /\ UNCHANGED <<spans, calls, timingVars, adapterVars, renderVars>>

\* App::tick: remove_expired with the application's threshold
SweepFixed ==
    /\ spans' = remove_expired(spans, SweepThreshold, [i \in DOMAIN spans |-> wall])
    /\ lastOp' = [NoOp EXCEPT !.op = "remove_expired",
                              !.threshold = SweepThreshold,
                              !.nowAt = [i \in DOMAIN spans |-> wall],
                              !.removed = Keys(spans) \ Keys(spans')]
    /\ UNCHANGED <<wall, calls, timingVars, adapterVars, renderVars>>

\* the calls that write records, made while the wall clock is within MaxTime
StoreCall ==
    /\ wall <= MaxTime
    /\ (InsertSpan \/ InsertEvent \/ CloseSpan \/ UpdateTiming)

InitSweep ==
    /\ TimingInit(0)
    /\ StoreInit
    /\ \E threshold \in Thresholds :
          pc = [t \in Threads |-> [Idle EXCEPT !.threshold = threshold]]
    /\ ext = [id \in SpanIds |-> None]
    /\ life = [id \in SpanIds |-> "free"]
    /\ extLock = [id \in SpanIds |-> Unlocked]
    /\ storeLock = Unlocked
    /\ snap = None
    /\ started = 0
    /\ panicked = FALSE
    /\ text = None

NextSweep ==
    \/ TickOn
    \/ SweepFixed
    \/ StoreCall

\* time keeps advancing and the sweep keeps being called
SpecSweep ==
    /\ InitSweep
    /\ [][NextSweep]_vars
    /\ WF_vars(TickOn)
    /\ WF_vars(SweepFixed)

\* the record of id is in the store and closed
ClosedIn(map, id) == id \in Keys(map) /\ Get(map, id).close_time # None

\* C21: with time advancing and remove_expired called again and again with
\* one threshold, every closed record is eventually out of the store, or
\* replaced by an open record of a new span with its id; this holds also for
\* a closed record that events are appended to.
C21_ClosedEventuallyEvicted ==
    \A id \in Ids : ClosedIn(spans, id) ~> ~ClosedIn(spans, id)

\* a closed record took an event after its close and is past the threshold
\* all the same: the next sweep removes it
C21_Witness ==
    /\ ClosedIn(spans, 1)
    /\ \E close_time \in Get(spans, 1).close_time :
          /\ Len(Get(spans, 1).events) = 1
          /\ Get(spans, 1).events[1].time > close_time
          /\ Expired(Get(spans, 1), SweepThreshold, wall)
    /\ SweepThreshold = MaxThreshold

-----------------------------------------------------------------------------
(* Rendering a snapshot: src/src/display.rs, called from App::render       *)
(* (src/examples/demo.rs). A function that can panic returns an Option:    *)
(* None is the panic.                                                      *)

Shown == 4          \* .take(4): the events of a record that are rendered
MaxHeld == 5        \* events held by the record that is rendered

\* IndexMap<String, String>::get
FieldMap_get(fields, key) ==
    {fields[i].value : i \in {j \in DOMAIN fields : fields[j].name = key}}

\* Iterator::rev and Iterator::take
Reverse(s) == [i \in DOMAIN s |-> s[Len(s) + 1 - i]]
Take(s, n) == SubSeq(s, 1, IF Len(s) < n THEN Len(s) ELSE n)

\* u128::checked_div(..).unwrap_or_default()
checked_div_or_default(a, b) == IF b = 0 THEN 0 ELSE a \div b

\* impl ToLine for EventRecord: fields["message"] panics for a missing key
EventRecord_to_line(event) ==
    LET message == FieldMap_get(event.fields, "message")
    IN  IF message = None THEN None
        ELSE Some([time |-> event.time, level |-> event.level,
                   message |-> CHOOSE m \in message : TRUE,
                   fields |-> SelectSeq(event.fields, LAMBDA f : f.name # "message"),
                   symbol |-> ""])

\* impl ToLine for SpanRecord
SpanRecord_to_line(span) ==
    [start_time |-> span.start_time, level |-> span.level,
     target |-> span.target, name |-> span.name,
     busy |-> span.timing.busy, idle |-> span.timing.idle,
     total |-> total_duration(span.timing),
     busy_percentage |->
        checked_div_or_default(span.timing.busy, total_duration(span.timing))]

\* the events to_text renders: .iter().rev().take(4).rev()
ShownEvents(span) == Reverse(Take(Reverse(span.events), Shown))

\* impl ToText for SpanRecord: the span's line, then a line per shown event
SpanRecord_to_text(span) ==
    LET shown == ShownEvents(span)
        lines == [i \in DOMAIN shown |-> EventRecord_to_line(shown[i])]
    IN  IF \E i \in DOMAIN lines : lines[i] = None THEN None
        ELSE Some([span_line |-> SpanRecord_to_line(span),
                   event_lines |->
                      [i \in DOMAIN shown |->
                          [(CHOOSE l \in lines[i] : TRUE) EXCEPT !.symbol =
                              IF i = Len(shown) THEN "last" ELSE "inner"]]])

\* App::render: spans.iter().map(ToText::to_text)
render(snapshot) ==
    LET texts == [i \in DOMAIN snapshot |-> SpanRecord_to_text(snapshot[i])]
    IN  IF \E i \in DOMAIN texts : texts[i] = None THEN None
        ELSE Some([i \in DOMAIN texts |-> CHOOSE t \in texts[i] : TRUE])

\* records the store can hold: up to MaxHeld events, the i-th appended at
\* time i, each with or without a field named "message"
RenderInputs ==
    UNION {{[SpanRecord_from(new(0), "DEBUG", "work", "demo", 0) EXCEPT
                !.events = [i \in 1..n |-> EventRecord_from("INFO", fm[i], i)]]
            : fm \in [1..n -> FieldMaps]} : n \in 0..MaxHeld}

\* the frame is drawn: the snapshot is rendered
Render ==
    /\ text = None
    /\ \E snapshot \in snap : text' = Some(render(snapshot))
    /\ UNCHANGED <<timingVars, storeVars, adapterVars>>

InitRender ==
    /\ TimingInit(0)
    /\ StoreInit
    /\ pc = [t \in Threads |-> Idle]
    /\ ext = [id \in SpanIds |-> None]
    /\ life = [id \in SpanIds |-> "free"]
    /\ extLock = [id \in SpanIds |-> Unlocked]
    /\ storeLock = Unlocked
    /\ \E span \in RenderInputs : snap = Some(<<RootRecord(0, 0), span>>)
    /\ started = 0
    /\ panicked = FALSE
    /\ text = None

NextRender == Render

SpecRender == InitRender /\ [][NextRender]_vars

\* the event lines are those of the last Shown events, in append order
LastShownInOrder(span, out) ==
    LET n == Len(span.events)
        k == IF n < Shown THEN n ELSE Shown
    IN  /\ Len(out.event_lines) = k
        /\ \A i \in 1..k : out.event_lines[i].time = span.events[n - k + i].time

\* when rendering succeeds it shows, for every record, the last Shown events
\* at most, in the order they were appended
RenderShowsLastEvents ==
    \A snapshot \in snap : \A result \in text : \A out \in result :
        \A i \in DOMAIN snapshot : LastShownInOrder(snapshot[i], out[i])

\* rendering panics exactly when one of the shown events has no field named
\* "message"
RenderPanicsWithoutMessage ==
    \A snapshot \in snap : \A result \in text :
        result = None <=>
            \E i \in DOMAIN snapshot :
                \E e \in {ShownEvents(snapshot[i])[j] : j \in DOMAIN ShownEvents(snapshot[i])} :
                    \A f \in {e.fields[j] : j \in DOMAIN e.fields} : f.name # "message"

\* C26: rendering a snapshot succeeds for every record the store can hold,
\* whatever the field maps of its events, and shows for each record at most
\* its four most recently appended events, in append order.
C26_RenderSucceeds ==
    \A snapshot \in snap : \A result \in text :
        /\ result # None
        /\ \A out \in result :
              \A i \in DOMAIN snapshot : LastShownInOrder(snapshot[i], out[i])

====
